---- MODULE Spec2Model ----
(***************************************************************************)
(* Model of gpu_monitor.py: the sampler get_gpu_data(), the renderer       *)
(* generate_table() and the __main__ loop that drives a rich Live display. *)
(*                                                                         *)
(* The NVML binding and the terminal display are the environment: every    *)
(* NVML call may succeed or raise, the renderer and the display may raise  *)
(* an unexpected exception, and SIGINT (KeyboardInterrupt) may arrive at   *)
(* any point of the main program.                                          *)
(***************************************************************************)
EXTENDS Integers, Sequences, FiniteSets, TLC

\* ---------------------------------------------------------------- bounds
MaxDevices == 2
MaxTicks == 2

\* ------------------------------------------------- environment's readings
Temps == {30, 64, 65, 79, 80, 95}
FanSpeeds == {45}
MemUsedBytes == {0, 1048576}
MemTotalBytes == {0, 2097152}
PowerUsageMilliwatts == {0, 150000, 300000}
PowerLimitMilliwatts == {0, 250000}
UtilPercents == {42}

\* every combination of raw readings one device can report
AllReadings ==
  [temp : Temps, fan : FanSpeeds, mem_used : MemUsedBytes,
   mem_total : MemTotalBytes, util : UtilPercents,
   power_usage : PowerUsageMilliwatts, power_limit : PowerLimitMilliwatts]

\* the device kinds used when several devices and several ticks are explored
Profiles ==
  { [temp |-> 79, fan |-> 45, mem_used |-> 0, mem_total |-> 2097152, util |-> 42,
     power_usage |-> 150000, power_limit |-> 250000],
    [temp |-> 64, fan |-> 45, mem_used |-> 0, mem_total |-> 0, util |-> 42,
     power_usage |-> 300000, power_limit |-> 0],
    [temp |-> 80, fan |-> 45, mem_used |-> 1048576, mem_total |-> 2097152,
     util |-> 42, power_usage |-> 300000, power_limit |-> 250000] }

\* str(e) of the NVMLError raised by nvmlInit / nvmlDeviceGetCount / a query
InitErrors == {"Driver Not Loaded", "Insufficient Permissions"}
CountErrors == {"Unknown Error"}
QueryErrors == {"GPU is lost"}

\* the queries of one loop iteration, in the order lines 28-60 make them
Queries ==
  << "name", "temperature", "fan_speed", "memory", "utilization",
     "power_usage", "power_limit", "driver_version" >>

\* what a query can do: answer, or raise NVMLError_NotSupported, another
\* NVMLError, or an exception that is no NVMLError
Answers == {"ok", "NotSupported", "NVMLError", "Exception"}

\* ------------------------------------------------------ float arithmetic
\* Python floats are modelled as exact fractions [n, d] in lowest terms.
RECURSIVE GCD(_, _)
GCD(a, b) == IF b = 0 THEN a ELSE GCD(b, a % b)

Frac(n, d) == LET g == GCD(n, d) IN [n |-> n \div g, d |-> d \div g]

\* Python's a / b on floats: raises ZeroDivisionError when b is 0
\* [n |-> 0, d |-> 0] stands for the ZeroDivisionError the division raised
ZeroDivisionError == [n |-> 0, d |-> 0]
Raised(a) == a.d = 0

TrueDiv(a, b) ==
  IF Raised(a) \/ Raised(b) \/ b.n = 0
    THEN ZeroDivisionError
    ELSE Frac(a.n * b.d, a.d * b.n)

Times100(a) == IF Raised(a) THEN ZeroDivisionError ELSE Frac(a.n * 100, a.d)

IsZero(a) == a.n = 0
LeqInt(a, k) == a.n <= k * a.d
GtInt(a, k) == a.n > k * a.d

\* line 37/38: memory_info.used / 1024**2
BytesToMiB(b) == Frac(b, 1048576)

\* line 44/45: nvmlDeviceGetPowerUsage(handle) / 1000.0
MilliwattsToWatts(mw) == Frac(mw, 1000)

\* a faulty variant of Percent: the zero guard is missing
PercentUnguarded(used, total) == Times100(TrueDiv(used, total))

\* a faulty variant of Percent: the fraction is inverted
PercentInverted(used, total) ==
  IF total.n > 0 THEN Times100(TrueDiv(total, used)) ELSE Frac(0, 1)

\* lines 39 and 46: (used / total) * 100 if total > 0 else 0
Percent(used, total) ==
  IF total.n > 0 THEN Times100(TrueDiv(used, total)) ELSE Frac(0, 1)


\* --------------------------------------------------------------- state
VARIABLES
  hw,            \* the devices NVML enumerates: a sequence of raw readings
  pc,            \* __main__: "sample", "render", "display", "sleep",
                 \*           "unwind" (an exception is propagating), "done"
  spc,           \* get_gpu_data: "idle", "init", "count", "loop", "finally"
  nvmlOpen,      \* the NVML subsystem is initialised (the handle is held)
  device_count,  \* line 24
  i,             \* line 25: the loop index
  gpu_data,      \* line 21: the list built so far
  pending,       \* how get_gpu_data leaves its try statement
  result,        \* the value get_gpu_data returned to __main__
  frame,         \* the renderable generate_table returned
  shown,         \* the renderable the Live display holds
  live,          \* the Live display: "none", "active", "closed"
  tick,          \* number of the current tick (0: the start-up sample)
  exc,           \* the exception propagating in / caught by __main__
  out,           \* what reached the terminal, in order
  exitCode,      \* the process's exit code: {} while it runs, then {code}
  interrupted,   \* SIGINT was delivered
  fanLog,        \* history: answers of the fan queries made by this call
  fail,          \* history: the first uncaught failure of this call
  shutdowns,     \* history: nvmlShutdown calls made by this call
  frames         \* history: the frames handed to the display, in order

vars ==
  << hw, pc, spc, nvmlOpen, device_count, i, gpu_data, pending, result, frame,
     shown, live, tick, exc, out, exitCode, interrupted, fanLog, fail,
     shutdowns, frames >>

sampler == << spc, nvmlOpen, device_count, i, gpu_data, pending >>
history == << fanLog, fail, shutdowns >>
screen == << frame, shown, live >>

None == [kind |-> "None"]

\* ------------------------------------------------------- get_gpu_data
\* the fan_speed local: an int, or the string "N/A"
IntFan(v) == [is_int |-> TRUE, value |-> v, text |-> ""]
StrFan(s) == [is_int |-> FALSE, value |-> 0, text |-> s]

\* a faulty variant of FanSpeed: the except clause of lines 33-34 is missing
FanSpeedNoExcept(answer, value) ==
  IF answer = "ok"
    THEN [raised |-> "none", fan_speed |-> IntFan(value)]
    ELSE [raised |-> (IF answer = "Exception" THEN "Exception" ELSE "NVMLError"),
          fan_speed |-> StrFan("")]

\* lines 31-34: only NVMLError_NotSupported is caught here
FanSpeed(answer, value) ==
  CASE answer = "ok" -> [raised |-> "none", fan_speed |-> IntFan(value)]
    [] answer = "NotSupported" -> [raised |-> "none", fan_speed |-> StrFan("N/A")]
    [] answer = "NVMLError" -> [raised |-> "NVMLError", fan_speed |-> StrFan("")]
    [] OTHER -> [raised |-> "Exception", fan_speed |-> StrFan("")]

\* lines 36-61: the dictionary appended for device idx
DeviceEntry(idx, r, fan_speed) ==
  LET mem_used == BytesToMiB(r.mem_used)
      mem_total == BytesToMiB(r.mem_total)
      power_usage == MilliwattsToWatts(r.power_usage)
      power_limit == MilliwattsToWatts(r.power_limit)
  IN [id |-> idx, name |-> "GPU", temp |-> r.temp, fan_speed |-> fan_speed,
      mem_used |-> mem_used, mem_total |-> mem_total,
      mem_percent |-> Percent(mem_used, mem_total),
      gpu_util |-> r.util,
      power_usage |-> power_usage, power_limit |-> power_limit,
      power_percent |-> Percent(power_usage, power_limit),
      driver_version |-> "535.104"]

EntryKeys ==
  {"id", "name", "temp", "fan_speed", "mem_used", "mem_total", "mem_percent",
   "gpu_util", "power_usage", "power_limit", "power_percent", "driver_version"}


\* the queries of an iteration made before / after the fan query
BeforeFan == {"name", "temperature"}
Mandatory == {Queries[q] : q \in 1..Len(Queries)} \ {"fan_speed"}

NVMLError(msg, at, dev) ==
  [type |-> "NVMLError", msg |-> msg, at |-> at, dev |-> dev]
Exception(msg, at, dev) ==
  [type |-> "Exception", msg |-> msg, at |-> at, dev |-> dev]
KeyboardInterrupt == [type |-> "KeyboardInterrupt", msg |-> "", at |-> "", dev |-> 0]
NoException == [type |-> "none", msg |-> "", at |-> "", dev |-> 0]

Raise(kind, msg, at, dev) ==
  IF kind = "NVMLError" THEN NVMLError(msg, at, dev) ELSE Exception(msg, at, dev)

\* lines 26-61: one iteration of the loop for device idx with readings r, where
\* the fan query answers fanAnswer and the mandatory query bad (if any) raises
\* an exception of the given kind
Iteration(idx, r, fanAnswer, bad, kind, msg) ==
  LET f == FanSpeed(fanAnswer, r.fan)
      e == DeviceEntry(idx, r, f.fan_speed)
  IN CASE bad \in BeforeFan ->
            [raised |-> Raise(kind, msg, bad, idx), fans |-> << >>, entry |-> << >>]
       [] bad \notin BeforeFan /\ f.raised # "none" ->
            [raised |-> Raise(f.raised, msg, "fan_speed", idx),
             fans |-> << fanAnswer >>, entry |-> << >>]
       [] bad \in Mandatory \ BeforeFan /\ f.raised = "none" ->
            [raised |-> Raise(kind, msg, bad, idx),
             fans |-> << fanAnswer >>, entry |-> << >>]
       [] OTHER ->
            IF Raised(e.mem_percent) \/ Raised(e.power_percent)
              THEN [raised |-> Exception("float division by zero", "percent", idx),
                    fans |-> << fanAnswer >>, entry |-> << >>]
              ELSE [raised |-> NoException, fans |-> << fanAnswer >>,
                    entry |-> << e >>]

Fallthrough == [kind |-> "fallthrough"]
Return(v) == [kind |-> "return", value |-> v]
Raising(e) == [kind |-> "raise", exc |-> e]

\* the values get_gpu_data returns: the list (line 70) or the error dictionary
\* (line 64); tick is a ghost field: the tick whose call produced the value
List(devices, t) == [kind |-> "list", devices |-> devices, tick |-> t]
Dict(msg, t) == [kind |-> "dict", error |-> msg, tick |-> t]

\* a faulty variant of ExceptNVMLError: the error is re-raised, not returned
ExceptReraise(e) == Raising(e)

\* a faulty variant of ExceptNVMLError: the devices read so far are returned
ExceptReturnPartial(e) == Return(List(gpu_data, tick))

\* lines 62-64: except pynvml.NVMLError as e: return {"error": str(e)}
ExceptNVMLError(e) == Return(Dict(e.msg, tick))

\* how the try statement is left when exception e is raised inside it:
\* only NVMLError (and its subclasses) is caught
Leave(e) == IF e.type = "NVMLError" THEN ExceptNVMLError(e) ELSE Raising(e)

\* a faulty variant of NvmlShutdown: the subsystem is left as it is
NvmlShutdownSkipped(open) == [open |-> open, raised |-> "none", calls |-> 0]

\* pynvml.nvmlShutdown(): closes an initialised subsystem, raises
\* NVMLError_Uninitialized on one that is not
NvmlShutdown(open) ==
  [open |-> FALSE, raised |-> IF open THEN "none" ELSE "NVMLError", calls |-> 1]

\* lines 66-69: the shutdown of the finally clause, its NVMLError ignored
ShutdownQuietly(open) ==
  LET sd == NvmlShutdown(open)
  IN [open |-> sd.open, raised |-> "none", calls |-> sd.calls]

\* line 23: pynvml.nvmlInit()
NvmlInit ==
  /\ pc = "sample" /\ spc = "init"
  /\ \/ /\ nvmlOpen' = TRUE
        /\ spc' = "count"
        /\ UNCHANGED << pending, fail >>
     \/ \E msg \in InitErrors :
          LET e == NVMLError(msg, "init", 0)
          IN /\ pending' = Leave(e)
             /\ fail' = e
             /\ spc' = "finally"
             /\ UNCHANGED nvmlOpen
  /\ UNCHANGED << hw, pc, device_count, i, gpu_data, result, screen, tick, exc,
                  out, exitCode, interrupted, fanLog, shutdowns, frames >>

\* line 24: device_count = pynvml.nvmlDeviceGetCount()
DeviceGetCount ==
  /\ pc = "sample" /\ spc = "count"
  /\ \/ /\ device_count' = Len(hw)
        /\ i' = 0
        /\ spc' = "loop"
        /\ UNCHANGED << pending, fail >>
     \/ \E msg \in CountErrors :
          LET e == NVMLError(msg, "count", 0)
          IN /\ pending' = Leave(e)
             /\ fail' = e
             /\ spc' = "finally"
             /\ UNCHANGED << device_count, i >>
  /\ UNCHANGED << hw, pc, nvmlOpen, gpu_data, result, screen, tick, exc, out,
                  exitCode, interrupted, fanLog, shutdowns, frames >>

\* lines 25-61: the body of the loop, for device i
LoopBody ==
  /\ pc = "sample" /\ spc = "loop" /\ i < device_count
  /\ \E fanAnswer \in Answers, bad \in Mandatory \cup {"none"},
        kind \in {"NVMLError", "Exception"}, msg \in QueryErrors :
       LET it == Iteration(i, hw[i + 1], fanAnswer, bad, kind, msg)
       IN /\ fanLog' = fanLog \o it.fans
          /\ IF it.raised.type = "none"
               THEN /\ gpu_data' = gpu_data \o it.entry
                    /\ i' = i + 1
                    /\ UNCHANGED << spc, pending, fail >>
               ELSE /\ pending' = Leave(it.raised)
                    /\ fail' = it.raised
                    /\ spc' = "finally"
                    /\ UNCHANGED << gpu_data, i >>
  /\ UNCHANGED << hw, pc, nvmlOpen, device_count, result, screen, tick, exc,
                  out, exitCode, interrupted, shutdowns, frames >>

\* line 25: range(device_count) is exhausted, the try block ends
LoopEnd ==
  /\ pc = "sample" /\ spc = "loop" /\ i >= device_count
  /\ pending' = Fallthrough
  /\ spc' = "finally"
  /\ UNCHANGED << hw, pc, nvmlOpen, device_count, i, gpu_data, result, screen,
                  tick, exc, out, exitCode, interrupted, history, frames >>

\* lines 65-70: the finally clause, then the pending return or raise; an
\* exception raised by the finally clause itself would replace what is pending
Finally ==
  /\ pc = "sample" /\ spc = "finally"
  /\ nvmlOpen' = ShutdownQuietly(nvmlOpen).open
  /\ shutdowns' = shutdowns + ShutdownQuietly(nvmlOpen).calls
  /\ spc' = "idle"
  /\ IF ShutdownQuietly(nvmlOpen).raised # "none"
       THEN /\ exc' = NVMLError("Uninitialized", "shutdown", 0)
            /\ pc' = "unwind"
            /\ UNCHANGED result
       ELSE IF pending.kind = "fallthrough"
         THEN /\ result' = List(gpu_data, tick)
              /\ pc' = "render"
              /\ UNCHANGED exc
         ELSE IF pending.kind = "return"
           THEN /\ result' = pending.value
                /\ pc' = "render"
                /\ UNCHANGED exc
           ELSE /\ exc' = pending.exc
                /\ pc' = "unwind"
                /\ UNCHANGED result
  /\ UNCHANGED << hw, device_count, i, gpu_data, pending, screen, tick, out,
                  exitCode, interrupted, fanLog, fail, frames >>

\* ----------------------------------------------------- generate_table
\* a faulty variant of TempStyle: the comparisons are strict
TempStyleStrict(temp) ==
  IF temp > 80 THEN "bold red" ELSE IF temp > 65 THEN "yellow" ELSE "green"

\* lines 93-98
TempStyle(temp) ==
  IF temp >= 80 THEN "bold red" ELSE IF temp >= 65 THEN "yellow" ELSE "green"

\* line 101
FanText(fan_speed) ==
  IF fan_speed.is_int
    THEN [value |-> fan_speed.value, text |-> "%"]
    ELSE [value |-> 0, text |-> "[dim]N/A[/dim]"]

\* lines 92-130: the row added for one dictionary of the list
Row(gpu) ==
  [id |-> gpu.id, name |-> gpu.name, temp |-> gpu.temp,
   temp_style |-> TempStyle(gpu.temp), fan_text |-> FanText(gpu.fan_speed),
   power_completed |-> gpu.power_percent, mem_completed |-> gpu.mem_percent,
   gpu_util_completed |-> gpu.gpu_util]

\* lines 74-79: the panel shown for the error dictionary
ErrorPanel(data) ==
  [kind |-> "error_panel", heading |-> "NVIDIA Driver/SMI Error:",
   text |-> data.error, border_style |-> "red", sample_tick |-> data.tick]

\* lines 81-136: the panel holding the table, one row per dictionary
TablePanel(data) ==
  [kind |-> "table",
   rows |-> [j \in 1..Len(data.devices) |-> Row(data.devices[j])],
   driver_version |-> IF Len(data.devices) > 0
                        THEN data.devices[1].driver_version ELSE "N/A",
   border_style |-> "blue", sample_tick |-> data.tick]

\* lines 72-136
generate_table(data) ==
  IF data.kind = "dict" THEN ErrorPanel(data) ELSE TablePanel(data)

\* ----------------------------------------------------------- __main__
ConsolePrint(stream, text) == [ev |-> "print", stream |-> stream, text |-> text]
Teardown == [ev |-> "teardown", stream |-> "stdout", text |-> ""]

\* lines 142/145: generate_table(get_gpu_data()); the renderer may also raise
Render ==
  /\ pc = "render"
  /\ \/ /\ frame' = generate_table(result)
        /\ pc' = "display"
        /\ UNCHANGED exc
     \/ /\ exc' = Exception("render failed", "render", 0)
        /\ pc' = "unwind"
        /\ UNCHANGED frame
  /\ UNCHANGED << hw, sampler, result, shown, live, tick, out, exitCode,
                  interrupted, history, frames >>

\* the log entry of a frame handed to the display during the current tick
ShownAt(f) == [kind |-> f.kind, sample_tick |-> f.sample_tick, tick |-> tick]

\* line 142: with Live(<first frame>, screen=True, transient=True, ...) as live
LiveStart ==
  /\ pc = "display" /\ live = "none"
  /\ \/ /\ live' = "active"
        /\ shown' = frame
        /\ frames' = Append(frames, ShownAt(frame))
        /\ pc' = "sleep"
        /\ UNCHANGED exc
     \/ /\ exc' = Exception("display failed", "display", 0)
        /\ pc' = "unwind"
        /\ UNCHANGED << live, shown, frames >>
  /\ UNCHANGED << hw, sampler, result, frame, tick, out, exitCode, interrupted,
                  history >>

\* line 145: live.update(<frame>)
LiveUpdate ==
  /\ pc = "display" /\ live = "active"
  /\ \/ /\ shown' = frame
        /\ frames' = Append(frames, ShownAt(frame))
        /\ pc' = "sleep"
        /\ UNCHANGED exc
     \/ /\ exc' = Exception("display failed", "display", 0)
        /\ pc' = "unwind"
        /\ UNCHANGED << shown, frames >>
  /\ UNCHANGED << hw, sampler, result, frame, live, tick, out, exitCode,
                  interrupted, history >>

\* a faulty variant of Sleep: the loop re-displays the frame it has, without
\* sampling again
SleepNoSample ==
  /\ pc = "sleep" /\ tick < MaxTicks
  /\ tick' = tick + 1
  /\ pc' = "display"
  /\ UNCHANGED << hw, sampler, result, screen, exc, out, exitCode, interrupted,
                  history, frames >>

\* lines 143-145: time.sleep(1) completes and get_gpu_data() is called
Sleep ==
  /\ pc = "sleep" /\ tick < MaxTicks
  /\ tick' = tick + 1
  /\ pc' = "sample"
  /\ spc' = "init"
  /\ gpu_data' = << >>
  /\ pending' = Fallthrough
  /\ fanLog' = << >>
  /\ fail' = NoException
  /\ shutdowns' = 0
  /\ UNCHANGED << hw, nvmlOpen, device_count, i, result, screen, exc, out,
                  exitCode, interrupted, frames >>

\* SIGINT: KeyboardInterrupt is raised where the main thread is.  Inside the
\* try block of get_gpu_data no except clause matches it and the finally clause
\* runs; inside the finally clause it propagates at once.
Interrupt ==
  /\ ~interrupted
  /\ pc \in {"sample", "render", "display", "sleep"}
  /\ interrupted' = TRUE
  /\ IF pc = "sample" /\ spc \in {"init", "count", "loop"}
       THEN /\ pending' = Raising(KeyboardInterrupt)
            /\ spc' = "finally"
            /\ UNCHANGED << pc, exc >>
       ELSE /\ exc' = KeyboardInterrupt
            /\ pc' = "unwind"
            /\ spc' = "idle"
            /\ UNCHANGED pending
  /\ UNCHANGED << hw, nvmlOpen, device_count, i, gpu_data, result, screen, tick,
                  out, exitCode, history, frames >>

\* a faulty variant of Unwind: the message is printed while the display is up
UnwindPrintFirst ==
  /\ pc = "unwind"
  /\ live' = IF live = "active" THEN "closed" ELSE live
  /\ out' = out
       \o << IF exc.type = "KeyboardInterrupt"
               THEN ConsolePrint("stdout", "GPU monitor stopped.")
               ELSE ConsolePrint("stdout", "An unexpected error occurred:") >>
       \o (IF live = "active" THEN << Teardown >> ELSE << >>)
  /\ exitCode' = {0}
  /\ pc' = "done"
  /\ UNCHANGED << hw, sampler, result, frame, shown, tick, exc, interrupted,
                  history, frames >>

\* lines 142-149: the exception leaves the with statement (Live.__exit__ stops
\* the display), the matching except clause prints on the Console, which
\* writes to standard output, and the script ends
Unwind ==
  /\ pc = "unwind"
  /\ live' = IF live = "active" THEN "closed" ELSE live
  /\ out' = out
       \o (IF live = "active" THEN << Teardown >> ELSE << >>)
       \o << IF exc.type = "KeyboardInterrupt"
               THEN ConsolePrint("stdout", "GPU monitor stopped.")
               ELSE ConsolePrint("stdout", "An unexpected error occurred:") >>
  /\ exitCode' = {0}
  /\ pc' = "done"
  /\ UNCHANGED << hw, sampler, result, frame, shown, tick, exc, interrupted,
                  history, frames >>

\* ------------------------------------------------------ specifications
Start ==
  /\ pc = "sample" /\ spc = "init"
  /\ nvmlOpen = FALSE /\ device_count = 0 /\ i = 0 /\ gpu_data = << >>
  /\ pending = Fallthrough
  /\ result = None /\ frame = None /\ shown = None
  /\ live = "none" /\ tick = 0
  /\ exc = NoException /\ out = << >> /\ exitCode = {}
  /\ interrupted = FALSE
  /\ fanLog = << >> /\ fail = NoException /\ shutdowns = 0 /\ frames = << >>

\* up to MaxDevices devices, each of one of the Profiles
Init ==
  /\ hw \in UNION {[1..n -> Profiles] : n \in 0..MaxDevices}
  /\ Start

\* one device, with every combination of readings
InitReadings ==
  /\ hw \in {<< r >> : r \in AllReadings}
  /\ Start

Next ==
  \/ NvmlInit
  \/ DeviceGetCount
  \/ LoopBody
  \/ LoopEnd
  \/ Finally
  \/ Render
  \/ LiveStart
  \/ LiveUpdate
  \/ Sleep
  \/ Interrupt
  \/ Unwind

Spec == Init /\ [][Next]_vars

SpecReadings == InitReadings /\ [][Next]_vars

\* ------------------------------------------------------------- claims
\* get_gpu_data() has returned a value during the current tick
Returned == result.kind # "None" /\ result.tick = tick

\* the loop driver's states: Running while the Live display is up
Running == live = "active"
Stopped == live = "closed" \/ pc = "done"

Critical == "bold red"
Warning == "yellow"
Normal == "green"

\* the parts of C1: a tick whose sample fails at nvmlInit or nvmlDeviceGetCount returns the
\* error dictionary with the subsystem's message, displays the error panel with
\* that message and leaves the loop running; only an interrupt or a failure of
\* the renderer or the display ends the loop; the wait is followed by the next
\* tick's sample; a tick whose sample is a list displays the table.
C1_Returned ==
  (Returned /\ fail.type = "NVMLError" /\ fail.at \in {"init", "count"})
    => (result.kind = "dict" /\ result.error = fail.msg)

C1_Displayed ==
  (pc = "sleep" /\ Returned)
    => /\ Running /\ exitCode = {}
       /\ result.kind = "dict" =>
            (shown.kind = "error_panel" /\ shown.text = result.error)
       /\ result.kind = "list" => shown.kind = "table"

C1_NeverFatal ==
  pc \in {"unwind", "done"} =>
    \/ exc.type = "KeyboardInterrupt"
    \/ exc.type = "Exception" /\ exc.at \notin {"init", "count"}

C1_Retries ==
  (pc = "sleep" /\ pc' # "sleep")
    => \/ pc' = "sample" /\ spc' = "init" /\ tick' = tick + 1
       \/ pc' = "unwind" /\ exc'.type = "KeyboardInterrupt"

\* C1: a sample that fails because the subsystem is unavailable is returned as
\* the error dictionary and displayed as the error panel with its message, the
\* loop stays running and samples again after the wait, for any number of
\* such ticks; a later tick whose sample succeeds displays the table.
C1_UnavailableKeepsPolling ==
  /\ [](C1_Returned /\ C1_Displayed /\ C1_NeverFatal)
  /\ [][C1_Retries]_vars

\* C1 witness: two consecutive ticks displayed the error panel for a failed
\* nvmlInit / nvmlDeviceGetCount, the third displayed the table, still running
C1_Witness ==
  /\ pc = "sleep" /\ Running /\ Len(frames) = 3
  /\ frames[1].kind = "error_panel" /\ frames[2].kind = "error_panel"
  /\ frames[3].kind = "table" /\ shown.kind = "table"

\* C2: when the program ends because of an exception other than the
\* interrupt, the exit code is not 0 and the message is on the error stream;
\* exit code 0 comes only from the interrupt.
C2_FailureExitsNonZero ==
  pc = "done" =>
    /\ exitCode = {0} => exc.type = "KeyboardInterrupt"
    /\ exc.type # "KeyboardInterrupt" => out[Len(out)].stream = "stderr"

\* the parts of C3: after an interrupt nothing is sampled, rendered or displayed any more
\* and the wait does not complete; the program ends with exit code 0, and when
\* the display was up it is torn down before the confirmation is printed.
C3_Unwinding ==
  interrupted =>
    \/ pc = "sample" /\ spc = "finally" /\ pending = Raising(KeyboardInterrupt)
    \/ pc \in {"unwind", "done"} /\ exc.type = "KeyboardInterrupt"

C3_Exit ==
  (pc = "done" /\ exc.type = "KeyboardInterrupt")
    => /\ exitCode = {0}
       /\ live # "active"
       /\ out = (IF live = "closed" THEN << Teardown >> ELSE << >>)
                  \o << ConsolePrint("stdout", "GPU monitor stopped.") >>

C3_Terminal ==
  (interrupted' \/ Stopped)
    => UNCHANGED << tick, result, frame, shown, frames, gpu_data, i,
                    device_count, fanLog >>

\* C3: an interrupt at any point of a running loop stops it for good: the
\* wait is not completed, nothing more is sampled, rendered or displayed, the
\* display is torn down before the confirmation, and the exit code is 0.
C3_InterruptStops ==
  /\ [](C3_Unwinding /\ C3_Exit)
  /\ [][C3_Terminal]_vars

\* C3 witness: the interrupt arrived during the wait of a running loop that
\* could have gone on; the display is closed and the program has ended
C3_Witness ==
  /\ pc = "done" /\ interrupted /\ live = "closed" /\ tick < MaxTicks
  /\ Returned /\ Len(frames) = tick + 1 /\ exitCode = {0}

\* C4: whenever get_gpu_data() is left by a return or by an exception of its
\* own (anything but the interrupt), nvmlShutdown was called once and the
\* subsystem is closed; a failed nvmlInit still returns the error dictionary.
C4_ShutdownOnEveryExit ==
  /\ (spc = "idle" /\ exc.type # "KeyboardInterrupt")
       => (shutdowns = 1 /\ ~nvmlOpen)
  /\ (pc \in {"render", "display", "sleep"}) => (shutdowns = 1 /\ ~nvmlOpen)
  /\ (spc = "idle" /\ fail.at = "init" /\ exc.type # "KeyboardInterrupt")
       => (Returned /\ result.kind = "dict" /\ result.error = fail.msg)

\* C4 witness: nvmlInit failed, the shutdown was attempted on the
\* uninitialised subsystem and the call returned the error dictionary
C4_Witness ==
  /\ pc = "render" /\ fail.at = "init" /\ shutdowns = 1 /\ ~nvmlOpen
  /\ result.kind = "dict"

\* C5: the value returned is the list with one complete dictionary per
\* enumerated device, ids 0, 1, ... in order, exactly when nothing failed, and
\* the error dictionary with no devices when an NVMLError was raised.
C5_Complete(j) ==
  /\ DOMAIN result.devices[j] = EntryKeys
  /\ result.devices[j].id = j - 1
  /\ \E fs \in {IntFan(hw[j].fan), StrFan("N/A")} :
       result.devices[j] = DeviceEntry(j - 1, hw[j], fs)

C5_AllOrNothing ==
  Returned =>
    /\ result.kind \in {"list", "dict"}
    /\ result.kind = "list" =>
         /\ fail.type = "none"
         /\ Len(result.devices) = Len(hw)
         /\ \A j \in 1..Len(result.devices) : C5_Complete(j)
    /\ result.kind = "dict" =>
         /\ fail.type = "NVMLError"
         /\ result.error = fail.msg
         /\ DOMAIN result = {"kind", "error", "tick"}

\* C5 witness: a mandatory query of device 1 failed after device 0 was read
C5_Witness ==
  /\ Returned /\ result.kind = "dict"
  /\ fail.at \in Mandatory /\ fail.dev = 1 /\ Len(gpu_data) = 1

\* C6 as claimed: no failure of a fan query fails the sample, and the device
\* whose fan query failed has the fan field "N/A".
C6_AnyFanFailureUnsupported ==
  /\ fail.at # "fan_speed"
  /\ (Returned /\ result.kind = "list") =>
       \A j \in 1..Len(result.devices) :
         fanLog[j] # "ok" => result.devices[j].fan_speed = StrFan("N/A")

\* C6 as amended: a fan query that raises NVMLError_NotSupported never fails
\* the sample and gives that device the fan field "N/A", every other field and
\* every other device being as without the failure; a fan query that raises
\* another NVMLError makes get_gpu_data() return the error dictionary.
C6_NotSupportedFanUnsupported ==
  /\ fail.at = "fan_speed" => fanLog[Len(fanLog)] \in {"NVMLError", "Exception"}
  /\ (Returned /\ fail.at = "fan_speed") =>
       (fail.type = "NVMLError" /\ result.kind = "dict")
  /\ (Returned /\ result.kind = "list") =>
       /\ Len(fanLog) = Len(result.devices)
       /\ \A j \in 1..Len(result.devices) :
            /\ fanLog[j] \in {"ok", "NotSupported"}
            /\ fanLog[j] = "NotSupported" =>
                 result.devices[j] = DeviceEntry(j - 1, hw[j], StrFan("N/A"))
            /\ fanLog[j] = "ok" =>
                 result.devices[j] = DeviceEntry(j - 1, hw[j], IntFan(hw[j].fan))

\* C6 witness: the fan of device 0 is not supported, the fan of device 1
\* answers, and the list of both devices was returned
C6_Witness ==
  /\ Returned /\ result.kind = "list" /\ Len(result.devices) = 2
  /\ fanLog = << "NotSupported", "ok" >>
  /\ ~result.devices[1].fan_speed.is_int /\ result.devices[2].fan_speed.is_int

\* C7: no division by zero is ever raised, and in a returned list a device
\* whose memory total is 0 has mem_percent 0 and a device whose power limit is
\* 0 has power_percent 0, whatever was used.
C7_ZeroTotalGivesZero ==
  /\ fail.at # "percent"
  /\ (Returned /\ result.kind = "list") =>
       \A j \in 1..Len(result.devices) :
         /\ hw[j].mem_total = 0 =>
              result.devices[j].mem_percent = Frac(0, 1)
         /\ hw[j].power_limit = 0 =>
              result.devices[j].power_percent = Frac(0, 1)

\* C7 witness: a returned device with memory 0 of 0 and power drawn against a
\* limit of 0
C7_Witness ==
  /\ Returned /\ result.kind = "list" /\ Len(result.devices) = 1
  /\ hw[1].mem_used = 0 /\ hw[1].mem_total = 0
  /\ hw[1].power_usage > 0 /\ hw[1].power_limit = 0
  /\ IsZero(result.devices[1].mem_percent)
  /\ IsZero(result.devices[1].power_percent)

\* C8 as claimed: power_percent of every returned device is within 0..100.
C8_PowerPercentWithin100 ==
  (Returned /\ result.kind = "list") =>
    \A j \in 1..Len(result.devices) :
      /\ result.devices[j].power_percent.n >= 0
      /\ LeqInt(result.devices[j].power_percent, 100)

\* C8 as amended: power_percent of every returned device is usage / limit *
\* 100 (0 when the limit is 0), never negative, and at most 100 exactly when
\* the limit is 0 or the usage does not exceed the limit.
C8_PowerPercentUnclamped ==
  (Returned /\ result.kind = "list") =>
    \A j \in 1..Len(result.devices) :
      LET p == result.devices[j].power_percent
      IN /\ p.n >= 0 /\ p.d > 0
         /\ hw[j].power_limit > 0 =>
              p.n * hw[j].power_limit = 100 * hw[j].power_usage * p.d
         /\ LeqInt(p, 100) <=>
              (hw[j].power_limit = 0 \/ hw[j].power_usage <= hw[j].power_limit)

\* C8 witness: a returned device drawing more than its limit, above 100
C8_Witness ==
  /\ Returned /\ result.kind = "list" /\ Len(result.devices) = 1
  /\ hw[1].power_usage > hw[1].power_limit /\ hw[1].power_limit > 0
  /\ GtInt(result.devices[1].power_percent, 100)

\* the parts of C9: the frames reach the display one per tick, in tick order, the first
\* from the start-up sample, each the render of the value sampled in the same
\* tick; sampling, rendering and display follow one another, and a call of
\* get_gpu_data() starts only when none is running.
C9_Frames ==
  /\ \A k \in 1..Len(frames) :
       frames[k].tick = k - 1 /\ frames[k].sample_tick = k - 1
  /\ shown.kind # "None" =>
       /\ shown.sample_tick = frames[Len(frames)].tick
       /\ shown.sample_tick \in {tick - 1, tick}
  /\ spc # "idle" => pc = "sample"

C9_Order ==
  /\ result' # result =>
       (pc = "sample" /\ pc' = "render" /\ result'.tick = tick)
  /\ frame' # frame =>
       (pc = "render" /\ pc' = "display" /\ Returned
        /\ frame' = generate_table(result))
  /\ shown' # shown =>
       (pc = "display" /\ pc' = "sleep" /\ shown' = frame
        /\ frame = generate_table(result) /\ Returned)
  /\ (spc' = "init" /\ spc # "init") => (spc = "idle" /\ pc = "sleep")
  /\ pc' # pc =>
       << pc, pc' >> \in
         { << "sample", "render" >>, << "render", "display" >>,
           << "display", "sleep" >>, << "sleep", "sample" >>,
           << "sample", "unwind" >>, << "render", "unwind" >>,
           << "display", "unwind" >>, << "sleep", "unwind" >>,
           << "unwind", "done" >> }

\* C9: sample, render and display update happen in that order within a tick,
\* one call of get_gpu_data() at a time, and every frame on display is the
\* render of the sample of its own tick, the first one of the start-up sample.
C9_TickOrder ==
  /\ []C9_Frames
  /\ [][C9_Order]_vars

\* C9 witness: the third frame is on display, rendered from the third sample
C9_Witness ==
  /\ pc = "sleep" /\ tick = 2 /\ Len(frames) = 3
  /\ shown.sample_tick = 2 /\ shown = generate_table(result)

\* C10: in every row on display the temperature style is critical from 80
\* up, warning from 65 to 79 and normal below 65.
C10_TempBands ==
  shown.kind = "table" =>
    \A j \in 1..Len(shown.rows) :
      LET t == hw[j].temp
          style == shown.rows[j].temp_style
      IN /\ shown.rows[j].temp = t
         /\ t >= 80 => style = Critical
         /\ (65 <= t /\ t < 80) => style = Warning
         /\ t < 65 => style = Normal
         /\ t = 64 => style = "green"
         /\ t \in {65, 79} => style = "yellow"
         /\ t = 80 => style = "bold red"

\* C10 witness: a row for a device at exactly 80 degrees is on display
C10_Witness ==
  /\ shown.kind = "table" /\ Len(shown.rows) = 1
  /\ shown.rows[1].temp = 80 /\ shown.rows[1].temp_style = Critical

====
